---------------------------- MODULE Spec2Model ----------------------------
(***************************************************************************)
(* A model of the generator / shrinker core and of the property runner of *)
(* python-proptest.                                                        *)
(*                                                                         *)
(*   Spec      the property runner, Property.for_all                       *)
(*   SpecGen   the transform generators (map, filter, flat_map) sampled    *)
(*             by two independent random sources built from one seed       *)
(*   SpecShr   the list shrinkers applied to bounded inputs                *)
(*   SpecInt   the integer shrinkers                                       *)
(*   SpecColl  the container shrinkers and the list generator              *)
(*   SpecFloat the float shrinkers                                         *)
(*   SpecComb  aggregate, one_of and element_of                            *)
(*   SpecLive  the property runner with its minimization running on        *)
(***************************************************************************)
EXTENDS Integers, Sequences, FiniteSets, TLC

VARIABLES
    seed,            \* the random stream selected by the seed
    rng,             \* Property._rng: position in the random stream
    generators,      \* for_all(*generators)
    property_func,   \* Property.property_func
    examples,        \* Property.examples
    num_runs,        \* Property.num_runs
    phase,           \* where for_all stands
    example_idx,     \* index of the next example of the example loop
    run,             \* number of random trials started
    inputs,          \* inputs of the current trial
    trial_shrs,      \* the Shrinkables generated in the current trial
    trial_failed,    \* a random trial has failed
    caught,          \* the exception the except clause of the trial handles
    arg_idx,         \* position i of the loop of _shrink_failing_inputs
    shrunk_inputs,   \* shrunk_inputs of _shrink_failing_inputs
    shrinkable,      \* shrinkable of _shrink_failing_inputs
    current_val,     \* current_val of _shrink_failing_inputs
    evaluated,       \* candidates handed to property_predicate, per position
    outcome,         \* what for_all returned or raised
    gen,             \* SpecGen: the generator under observation
    rngs,            \* SpecGen: the position of each random source;
                     \* SpecComb: the position of the random source
    shrs,            \* SpecGen: the Shrinkable each source produced
    calls,           \* SpecGen: the invocations of each root children thunk;
                     \* SpecComb: the passes of the selection loop
    shr_in,          \* the input of the shrinker or generator under study
    shr_out          \* what the shrinker or generator returned

runnerVars == <<rng, generators, property_func, examples, num_runs, phase,
                example_idx, run, inputs, trial_shrs, trial_failed, caught,
                arg_idx, shrunk_inputs, shrinkable, current_val, evaluated,
                outcome>>
genVars    == <<gen, rngs, shrs, calls>>
shrVars    == <<shr_in, shr_out>>
vars       == <<seed, runnerVars, genVars, shrVars>>

---------------------------------------------------------------------------
(* Bounds of the model *)

MaxRaw  == 4     \* raw draws of the random stream are 0..MaxRaw
TapeLen == 2     \* period of the random stream
MaxRuns == 2     \* largest num_runs
MaxCalls == 2    \* invocations of one children thunk that are followed
MaxLen  == 3     \* longest list handed to a list shrinker
MaxElem == 3     \* list elements are 1..MaxElem
FloatMax == 32   \* the largest finite float, in units of the smallest one
MaxPower == 2    \* element-wise shrinking splits into at most 2^MaxPower chunks
MaxIter == 3     \* passes of a selection loop that are followed

None == [none |-> TRUE]

\* no exception is being handled
NoException == "none"

Last(s) == s[Len(s)]

RECURSIVE SumSeq(_)
SumSeq(s) == IF s = <<>> THEN 0 ELSE Head(s) + SumSeq(Tail(s))

---------------------------------------------------------------------------
(* The random source: a sequential stream fixed by the seed.  Its state is *)
(* the position in the stream.                                             *)

Seeds == [1..TapeLen -> 0..MaxRaw]

Raw(p) == seed[(p % TapeLen) + 1]

\* rng.randint(a, b), a <= b: the value drawn at position p
randint(p, a, b) == a + (Raw(p) % (b - a + 1))

---------------------------------------------------------------------------
(* Shrinkable: a value and a re-invocable thunk that produces the children *)

Shrinkable(v, thunk) == [value |-> v, thunk |-> thunk]

\* lambda: Stream.many(list) over an already built list
Static(list) == [t |-> "static", list |-> list]

\* lambda: s.shrinks()
Delegate(s) == [t |-> "delegate", to |-> s]

Leaf(v) == Shrinkable(v, Static(<<>>))

\* a bisection that forgets the subtrees: one childless node per step
RECURSIVE gen_pos_flat(_, _)
gen_pos_flat(lo, hi) ==
    LET mid == (lo \div 2) + (hi \div 2)
               + (IF lo % 2 # 0 /\ hi % 2 # 0 THEN 1 ELSE 0)
    IN IF lo + 1 >= hi THEN <<>>
       ELSE IF lo + 2 >= hi THEN <<Leaf(mid)>>
       ELSE <<Leaf(mid)>> \o gen_pos_flat(mid, hi)

\* binary-range shrink: candidates strictly between lo and hi, by bisection
RECURSIVE gen_pos(_, _)
gen_pos(lo, hi) ==
    LET mid == (lo \div 2) + (hi \div 2)
               + (IF lo % 2 # 0 /\ hi % 2 # 0 THEN 1 ELSE 0)
    IN IF lo + 1 >= hi THEN <<>>
       ELSE IF lo + 2 >= hi THEN <<Leaf(mid)>>
       ELSE <<Shrinkable(mid, Static(gen_pos(lo, mid)))>> \o gen_pos(mid, hi)

RECURSIVE MapStatic(_, _)
MapStatic(f, s) ==
    Shrinkable(f[s.value],
               Static([k \in 1..Len(s.thunk.list) |-> MapStatic(f, s.thunk.list[k])]))

binary_search_shrinkable(value) ==
    IF value = 0 THEN Leaf(0)
    ELSE IF value > 0
         THEN Shrinkable(value, Static(<<Leaf(0)>> \o gen_pos(0, value)))
         ELSE MapStatic([n \in Int |-> 0 - n],
                        Shrinkable(0 - value,
                                   Static(<<Leaf(0)>> \o gen_pos(0, 0 - value))))

shrink_integral(value, min_value, max_value) ==
    LET boundary == IF min_value >= 0 THEN min_value
                    ELSE IF max_value <= 0 THEN max_value ELSE 0
    IN MapStatic([n \in Int |-> n + boundary],
                 binary_search_shrinkable(value - boundary))

---------------------------------------------------------------------------
(* Generators: the closed-over configuration of each generator class *)

IntGen(lo, hi)       == [kind |-> "int", min_value |-> lo, max_value |-> hi]
JustGen(v)           == [kind |-> "just", value |-> v]
MappedGen(g, f)      == [kind |-> "map", generator |-> g, func |-> f]
FilteredGen(g, p, n) == [kind |-> "filter", generator |-> g, predicate |-> p,
                         max_attempts |-> n]
FlatMappedGen(g, f)  == [kind |-> "flat_map", generator |-> g, func |-> f]

\* the functions handed to map
ApplyFunc(f, x) ==
    CASE f = "double" -> 2 * x
      [] f = "succ"   -> x + 1

\* the predicates handed to filter
ApplyPred(p, x) ==
    CASE p = "even"    -> x % 2 = 0
      [] p = "nonzero" -> x # 0
      [] p = "never"   -> FALSE

\* the functions handed to flat_map: the generator that depends on the value
DependentGen(f, x) ==
    CASE f = "upto"  -> IntGen(0, x)
      [] f = "above" -> IntGen(x, x + 2)
      [] f = "same"  -> JustGen(x)

\* the thunks the transform generators build
MapThunk(s, f)          == [t |-> "map", shrinkable |-> s, func |-> f]
FlatMapThunk(s1, s2, f) == [t |-> "flat_map", first_shrinkable |-> s1,
                            second_shrinkable |-> s2, func |-> f]

Generated(s, p) == [ok |-> TRUE, shr |-> s, pos |-> p]
Raised(p)       == [ok |-> FALSE, shr |-> None, pos |-> p]

\* [Shrinkable(s.value, lambda: s.shrinks()) for s in kids]: the lambda reads
\* the comprehension's variable s when it is called, after the loop has ended
LateBoundCopies(kids) ==
    [k \in 1..Len(kids) |-> Shrinkable(kids[k].value, Delegate(Last(kids)))]

\* [Shrinkable(self.func(s.value), lambda: s.shrinks()) for s in kids]
LateBoundMapped(kids, f) ==
    [k \in 1..Len(kids) |->
        Shrinkable(ApplyFunc(f, kids[k].value), Delegate(Last(kids)))]

RECURSIVE Generate(_, _)
RECURSIVE shrinks(_, _)
RECURSIVE FilterAttempts(_, _, _)
RECURSIVE Regenerate(_, _, _, _)
RECURSIVE ListGenerator_generate(_, _)

\* IntGenerator.generate
IntGenerator_generate(g, p) ==
    IF g.min_value > g.max_value THEN Raised(p)
    ELSE LET value == randint(p, g.min_value, g.max_value)
         IN Generated(shrink_integral(value, g.min_value, g.max_value), p + 1)

\* JustGenerator.generate
JustGenerator_generate(g, p) == Generated(Leaf(g.value), p)

\* MappedGenerator.generate
MappedGenerator_generate(g, p) ==
    LET r == Generate(g.generator, p)
    IN IF ~r.ok THEN r
       ELSE Generated(Shrinkable(ApplyFunc(g.func, r.shr.value),
                                 MapThunk(r.shr, g.func)), r.pos)

\* FilteredGenerator._filter_shrinks: the candidates that satisfy the predicate
RECURSIVE filter_shrinks(_, _)
filter_shrinks(g, kids) ==
    IF kids = <<>> THEN <<>>
    ELSE (IF ApplyPred(g.predicate, Head(kids).value) THEN <<Head(kids)>> ELSE <<>>)
         \o filter_shrinks(g, Tail(kids))

\* a retry loop that samples once more after the last attempt is used up
RECURSIVE FilterAttempts_extra(_, _, _)
FilterAttempts_extra(g, p, n) ==
    IF n < 0 THEN Raised(p)
    ELSE LET r == Generate(g.generator, p)
         IN IF ~r.ok THEN r
            ELSE IF ApplyPred(g.predicate, r.shr.value)
                 THEN LET ks == shrinks(r.shr, r.pos)
                      IN IF ~ks.ok THEN Raised(ks.pos)
                         ELSE Generated(
                                Shrinkable(r.shr.value,
                                           Static(filter_shrinks(g, ks.list))),
                                ks.pos)
                 ELSE FilterAttempts_extra(g, r.pos, n - 1)

\* FilteredGenerator.generate, with n attempts left
FilterAttempts(g, p, n) ==
    IF n = 0 THEN Raised(p)
    ELSE LET r == Generate(g.generator, p)
         IN IF ~r.ok THEN r
            ELSE IF ApplyPred(g.predicate, r.shr.value)
                 THEN LET ks == shrinks(r.shr, r.pos)
                      IN IF ~ks.ok THEN Raised(ks.pos)
                         ELSE Generated(
                                Shrinkable(r.shr.value,
                                           Static(filter_shrinks(g, ks.list))),
                                ks.pos)
                 ELSE FilterAttempts(g, r.pos, n - 1)

FilteredGenerator_generate(g, p) == FilterAttempts(g, p, g.max_attempts)

\* FlatMappedGenerator.generate
FlatMappedGenerator_generate(g, p) ==
    LET first == Generate(g.generator, p)
    IN IF ~first.ok THEN first
       ELSE LET second == Generate(DependentGen(g.func, first.shr.value),
                                   first.pos)
            IN IF ~second.ok THEN second
               ELSE Generated(
                      Shrinkable(second.shr.value,
                                 FlatMapThunk(first.shr, second.shr, g.func)),
                      second.pos)

Generate(g, p) ==
    CASE g.kind = "int"      -> IntGenerator_generate(g, p)
      [] g.kind = "just"     -> JustGenerator_generate(g, p)
      [] g.kind = "map"      -> MappedGenerator_generate(g, p)
      [] g.kind = "filter"   -> FilteredGenerator_generate(g, p)
      [] g.kind = "flat_map" -> FlatMappedGenerator_generate(g, p)
      [] g.kind = "list"     -> ListGenerator_generate(g, p)

Children(list, p) == [ok |-> TRUE, list |-> list, pos |-> p]
ChildrenRaised(p) == [ok |-> FALSE, list |-> <<>>, pos |-> p]

\* the loop over first_shrinkable.shrinks() in FlatMappedGenerator's
\* shrink_func: every regeneration draws from the random source as it stands
Regenerate(first_kids, k, f, p) ==
    IF k > Len(first_kids) THEN Children(<<>>, p)
    ELSE LET r == Generate(DependentGen(f, first_kids[k].value), p)
         IN IF ~r.ok THEN ChildrenRaised(r.pos)
            ELSE LET rest == Regenerate(first_kids, k + 1, f, r.pos)
                 IN IF ~rest.ok THEN rest
                    ELSE Children(<<r.shr>> \o rest.list, rest.pos)

\* MappedGenerator.generate.shrink_func
Mapped_shrink_func(th, p) ==
    LET ks == shrinks(th.shrinkable, p)
    IN IF ~ks.ok THEN ks
       ELSE Children(LateBoundMapped(ks.list, th.func), ks.pos)

\* FlatMappedGenerator.generate.shrink_func
FlatMapped_shrink_func(th, p) ==
    LET second == shrinks(th.second_shrinkable, p)
    IN IF ~second.ok THEN second
       ELSE LET first == shrinks(th.first_shrinkable, second.pos)
            IN IF ~first.ok THEN first
               ELSE LET regen == Regenerate(first.list, 1, th.func, first.pos)
                    IN IF ~regen.ok THEN regen
                       ELSE Children(LateBoundCopies(second.list) \o regen.list,
                                     regen.pos)

\* Shrinkable.shrinks(): call the thunk, with the random source at position p
shrinks(s, p) ==
    CASE s.thunk.t = "static"   -> Children(s.thunk.list, p)
      [] s.thunk.t = "delegate" -> shrinks(s.thunk.to, p)
      [] s.thunk.t = "map"      -> Mapped_shrink_func(s.thunk, p)
      [] s.thunk.t = "flat_map" -> FlatMapped_shrink_func(s.thunk, p)

---------------------------------------------------------------------------
(* Property.for_all and Property._shrink_failing_inputs *)

\* property functions under test: what a call returns or raises
Call(pf, args) ==
    CASE pf.kind = "lt" ->
            IF SumSeq(args) < pf.k THEN "true" ELSE "false"
      [] pf.kind = "raise_ge" ->
            IF SumSeq(args) < pf.k THEN "true" ELSE "raise"
      [] pf.kind = "assume_ge" ->
            IF SumSeq(args) < pf.k THEN "true" ELSE "assume"
      [] pf.kind = "even" ->
            IF SumSeq(args) % 2 = 0 THEN "true" ELSE "false"
      [] pf.kind = "fail" -> "false"

GeneratorChoices ==
    { <<IntGen(0, 4)>>, <<IntGen(2, 4)>>, <<IntGen(0, 2), IntGen(0, 2)>>,
      <<FilteredGen(IntGen(0, 4), "even", 1)>>,
      <<[kind |-> "list", element_generator |-> IntGen(0, 2),
         min_length |-> 0, max_length |-> 2]>> }

PropertyChoices ==
    { [kind |-> "lt", k |-> 0], [kind |-> "lt", k |-> 1], [kind |-> "lt", k |-> 2],
      [kind |-> "lt", k |-> 5],
      [kind |-> "raise_ge", k |-> 2], [kind |-> "assume_ge", k |-> 2],
      [kind |-> "even", k |-> 0], [kind |-> "fail", k |-> 0] }

\* the property functions that accept the values of the generators: the
\* arithmetic ones take integers only
PropertyChoicesFor(gens) ==
    IF \E k \in 1..Len(gens) : gens[k].kind = "list"
    THEN { pf \in PropertyChoices : pf.kind = "fail" }
    ELSE PropertyChoices

ExampleChoices ==
    { <<>>, << <<1>> >>, << <<1>>, <<3>> >>, << <<1, 1>> >> }

Passed == [kind |-> "passed"]
PropertyTestError(failing, minimal, why) ==
    [kind |-> "PropertyTestError", failing_inputs |-> failing,
     minimal_inputs |-> minimal, cause |-> why]
ValueError == [kind |-> "ValueError"]

\* one pass of "for generator in generators": the Shrinkables generated
\* before a generator raised, and where the random source stands afterwards
RECURSIVE GenerateAll(_, _, _)
GenerateAll(gens, k, p) ==
    IF k > Len(gens) THEN [ok |-> TRUE, shrs |-> <<>>, pos |-> p]
    ELSE LET r == Generate(gens[k], p)
         IN IF ~r.ok THEN [ok |-> FALSE, shrs |-> <<>>, pos |-> r.pos]
            ELSE LET rest == GenerateAll(gens, k + 1, r.pos)
                 IN [ok |-> rest.ok, shrs |-> <<r.shr>> \o rest.shrs,
                     pos |-> rest.pos]

Values(ss) == [k \in 1..Len(ss) |-> ss[k].value]

\* a wrapper that reports every candidate as failing
property_predicate_rejecting(test_inputs) == FALSE

\* property_predicate of _shrink_failing_inputs
property_predicate(test_inputs) == Call(property_func, test_inputs) = "true"

\* test_inputs = shrunk_inputs[:i] + [candidate_val] + inputs[i + 1:]
test_inputs(candidate_val) ==
    shrunk_inputs \o <<candidate_val>>
        \o SubSeq(inputs, arg_idx + 1, Len(inputs))

\* index of the first candidate on which the property still fails, or 0
RECURSIVE FirstFailing(_, _)
FirstFailing(kids, k) ==
    IF k > Len(kids) THEN 0
    ELSE IF ~property_predicate(test_inputs(kids[k].value)) THEN k
    ELSE FirstFailing(kids, k + 1)

\* an example loop that goes on after a failing example
ExampleVerdict_skipping(ex) ==
    IF Len(ex) # Len(generators) THEN "skip"
    ELSE IF Call(property_func, ex) = "assume" THEN "skip" ELSE "next"

\* what the loop over the examples does with one example
ExampleVerdict(ex) ==
    IF Len(ex) # Len(generators) THEN "skip"
    ELSE LET res == Call(property_func, ex)
         IN CASE res = "true"   -> "next"
              [] res = "assume" -> "skip"
              [] res = "false"  -> "fail"
              [] res = "raise"  -> "fail"

\* a trial whose failure goes unnoticed
TrialVerdict_ignoring(generated, res) == "next"

\* where a random trial leads: on to the next run, or into the shrinking
TrialVerdict(generated, res) ==
    IF generated /\ res = "true" THEN "next" ELSE "shrink"

\* the exception "except Exception as e" of the trial catches, if any
TrialCaught(generated, res) ==
    IF ~generated THEN "ValueError"
    ELSE CASE res = "false"  -> NoException
           [] res = "raise"  -> "exception"
           [] res = "assume" -> "Assumption failed"
           [] res = "true"   -> NoException

Init ==
    /\ seed \in Seeds
    /\ rng = 0
    /\ generators \in GeneratorChoices
    /\ property_func \in PropertyChoicesFor(generators)
    /\ examples \in ExampleChoices
    /\ num_runs \in 0..MaxRuns
    /\ phase = "RunExamples"
    /\ example_idx = 1
    /\ run = 0
    /\ inputs = <<>>
    /\ trial_shrs = <<>>
    /\ trial_failed = FALSE
    /\ caught = NoException
    /\ arg_idx = 0
    /\ shrunk_inputs = <<>>
    /\ shrinkable = None
    /\ current_val = None
    /\ evaluated = <<>>
    /\ outcome = None
    /\ gen = None /\ rngs = None /\ shrs = None /\ calls = None
    /\ shr_in = None /\ shr_out = None

\* one iteration of "for example_inputs in self.examples"
RunExample ==
    /\ phase = "RunExamples"
    /\ example_idx <= Len(examples)
    /\ LET ex == examples[example_idx]
           v  == ExampleVerdict(ex)
       IN IF v = "fail"
          THEN /\ phase' = "Report"
               /\ outcome' = PropertyTestError(ex, ex,
                                 IF Call(property_func, ex) = "raise"
                                 THEN "exception" ELSE "PropertyTestError")
               /\ UNCHANGED example_idx
          ELSE /\ example_idx' = example_idx + 1
               /\ UNCHANGED <<phase, outcome>>
    /\ UNCHANGED <<seed, rng, generators, property_func, examples, num_runs, run,
                   inputs, trial_shrs, trial_failed, caught, arg_idx,
                   shrunk_inputs, shrinkable, current_val, evaluated, genVars,
                   shrVars>>

\* the example loop is exhausted: on to "for run in range(self.num_runs)"
ExamplesDone ==
    /\ phase = "RunExamples"
    /\ example_idx > Len(examples)
    /\ phase' = "RunRandomTrials"
    /\ UNCHANGED <<seed, rng, generators, property_func, examples, num_runs,
                   example_idx, run, inputs, trial_shrs, trial_failed, caught,
                   arg_idx, shrunk_inputs, shrinkable, current_val, evaluated,
                   outcome, genVars, shrVars>>

\* one random trial: sample every generator, call the property
RunTrial ==
    /\ phase = "RunRandomTrials"
    /\ run < num_runs
    /\ LET g   == GenerateAll(generators, 1, rng)
           res == IF g.ok THEN Call(property_func, Values(g.shrs)) ELSE "raise"
           v   == TrialVerdict(g.ok, res)
       IN /\ rng' = g.pos
          /\ run' = run + 1
          /\ inputs' = Values(g.shrs)
          /\ trial_shrs' = g.shrs
          /\ evaluated' = [k \in 1..Len(generators) |-> {}]
          /\ trial_failed' = (trial_failed \/ ~g.ok \/ res # "true")
          /\ IF v = "next"
             THEN UNCHANGED <<phase, caught, arg_idx>>
             ELSE /\ phase' = "Shrinking"
                  /\ caught' = TrialCaught(g.ok, res)
                  /\ arg_idx' = 1
    /\ UNCHANGED <<seed, generators, property_func, examples, num_runs,
                   example_idx, shrunk_inputs, shrinkable, current_val,
                   outcome, genVars, shrVars>>

\* every run passed: for_all is about to return True
TrialsDone ==
    /\ phase = "RunRandomTrials"
    /\ run = num_runs
    /\ phase' = "Pass"
    /\ UNCHANGED <<seed, rng, generators, property_func, examples, num_runs,
                   example_idx, run, inputs, trial_shrs, trial_failed, caught,
                   arg_idx, shrunk_inputs, shrinkable, current_val, evaluated,
                   outcome, genVars, shrVars>>

ReturnTrue ==
    /\ phase = "Pass"
    /\ phase' = "Report"
    /\ outcome' = Passed
    /\ UNCHANGED <<seed, rng, generators, property_func, examples, num_runs,
                   example_idx, run, inputs, trial_shrs, trial_failed, caught,
                   arg_idx, shrunk_inputs, shrinkable, current_val, evaluated,
                   genVars, shrVars>>

\* an exception leaves _shrink_failing_inputs with the random source at p:
\* raised from the try block, the except clause of the trial catches it and
\* calls _shrink_failing_inputs again; raised from the except clause, it
\* leaves for_all
ShrinkRaised(p) ==
    /\ rng' = p
    /\ shrinkable' = None
    /\ current_val' = None
    /\ IF caught = NoException
       THEN /\ caught' = "ValueError"
            /\ arg_idx' = 1
            /\ shrunk_inputs' = <<>>
            /\ UNCHANGED <<phase, outcome>>
       ELSE /\ phase' = "Report"
            /\ outcome' = ValueError
            /\ UNCHANGED <<caught, arg_idx, shrunk_inputs>>

\* lines 174-180: a Shrinkable for position i from the generator, its value
\* overridden with the failing input
ShrinkArgument ==
    /\ phase = "Shrinking"
    /\ shrinkable = None
    /\ Len(inputs) = Len(generators)
    /\ arg_idx <= Len(generators)
    /\ LET r == Generate(generators[arg_idx], rng)
       IN IF r.ok
          THEN /\ rng' = r.pos
               /\ shrinkable' = [r.shr EXCEPT !.value = inputs[arg_idx]]
               /\ current_val' = inputs[arg_idx]
               /\ UNCHANGED <<phase, caught, arg_idx, shrunk_inputs, outcome>>
          ELSE ShrinkRaised(r.pos)
    /\ UNCHANGED <<seed, generators, property_func, examples, num_runs,
                   example_idx, run, inputs, trial_shrs, trial_failed,
                   evaluated, genVars, shrVars>>

\* the candidates the scan of one "while improved" round hands to the property
Scanned(kids, hit) ==
    { kids[k].value : k \in 1..(IF hit = 0 THEN Len(kids) ELSE hit) }

\* a round that adopts the value of a failing candidate but goes on scanning
\* the children of the node it stood on
ShrinkStep_rescanning ==
    /\ phase = "Shrinking"
    /\ shrinkable # None
    /\ LET ks  == shrinks(shrinkable, rng)
           hit == FirstFailing(ks.list, 1)
       IN /\ ks.ok
          /\ rng' = ks.pos
          /\ evaluated' = [evaluated EXCEPT
                             ![arg_idx] = @ \cup Scanned(ks.list, hit)]
          /\ IF hit > 0
             THEN /\ current_val' = ks.list[hit].value
                  /\ UNCHANGED <<shrinkable, arg_idx, shrunk_inputs>>
             ELSE /\ shrunk_inputs' = Append(shrunk_inputs, current_val)
                  /\ arg_idx' = arg_idx + 1
                  /\ shrinkable' = None
                  /\ current_val' = None
          /\ UNCHANGED <<phase, caught, outcome>>
    /\ UNCHANGED <<seed, generators, property_func, examples, num_runs,
                   example_idx, run, inputs, trial_shrs, trial_failed,
                   genVars, shrVars>>

\* lines 182-195: one round of "while improved", and the append that follows
\* the last round
ShrinkStep ==
    /\ phase = "Shrinking"
    /\ shrinkable # None
    /\ LET ks  == shrinks(shrinkable, rng)
           hit == FirstFailing(ks.list, 1)
       IN IF ~ks.ok
          THEN ShrinkRaised(ks.pos) /\ UNCHANGED evaluated
          ELSE /\ rng' = ks.pos
               /\ evaluated' = [evaluated EXCEPT
                                  ![arg_idx] = @ \cup Scanned(ks.list, hit)]
               /\ IF hit > 0
                  THEN /\ current_val' = ks.list[hit].value
                       /\ shrinkable' = ks.list[hit]
                       /\ UNCHANGED <<arg_idx, shrunk_inputs>>
                  ELSE /\ shrunk_inputs' = Append(shrunk_inputs, current_val)
                       /\ arg_idx' = arg_idx + 1
                       /\ shrinkable' = None
                       /\ current_val' = None
               /\ UNCHANGED <<phase, caught, outcome>>
    /\ UNCHANGED <<seed, generators, property_func, examples, num_runs,
                   example_idx, run, inputs, trial_shrs, trial_failed,
                   genVars, shrVars>>

\* what _shrink_failing_inputs returns once its loop is over (line 197), or at
\* once when the lengths differ (lines 160-161)
MinimalInputs ==
    IF Len(inputs) # Len(generators) THEN inputs ELSE shrunk_inputs

\* raise PropertyTestError(..., failing_inputs=inputs, minimal_inputs=...)
RaiseFailure ==
    /\ phase = "Shrinking"
    /\ shrinkable = None
    /\ Len(inputs) # Len(generators) \/ arg_idx > Len(generators)
    /\ phase' = "Report"
    /\ outcome' = PropertyTestError(inputs, MinimalInputs, caught)
    /\ UNCHANGED <<seed, rng, generators, property_func, examples, num_runs,
                   example_idx, run, inputs, trial_shrs, trial_failed, caught,
                   arg_idx, shrunk_inputs, shrinkable, current_val, evaluated,
                   genVars, shrVars>>

Next ==
    \/ RunExample
    \/ ExamplesDone
    \/ RunTrial
    \/ TrialsDone
    \/ ReturnTrue
    \/ ShrinkArgument
    \/ ShrinkStep
    \/ RaiseFailure

Spec == Init /\ [][Next]_vars

---------------------------------------------------------------------------
(* Claims about the property runner, checked under Spec *)

Reported == phase = "Report"
Failed   == Reported /\ outcome.kind = "PropertyTestError"

\* the values of all nodes of the shrink tree of s
RECURSIVE NodeValues(_)
NodeValues(s) ==
    LET ks == shrinks(s, 0).list
    IN {s.value} \cup UNION { NodeValues(ks[k]) : k \in 1..Len(ks) }

\* the property is false exactly on the values >= K, the least of the range
MonotoneFromMin ==
    /\ Len(generators) = 1
    /\ generators[1].kind = "int"
    /\ property_func.kind = "lt"
    /\ property_func.k = generators[1].min_value

\* C1: when the property is false exactly for x >= K and the generator is
\* the integer generator over [K, K+N], a failure reported for a random
\* trial has minimal_inputs = [K], whichever value the failing trial sampled.
C1_MinimalIsK ==
    (Failed /\ trial_failed /\ MonotoneFromMin)
        => outcome.minimal_inputs = <<generators[1].min_value>>

\* the threshold of the property lies strictly inside the range [0, 2T]
ThresholdInside ==
    /\ generators = <<IntGen(0, 4)>>
    /\ property_func = [kind |-> "lt", k |-> 2]

\* C2: for the property x < T over the integer generator on [0, 2T] (x < 100
\* on [0, 200] in the scenario), the reported failure has
\* minimal_inputs = [T]: the minimization ends exactly at the threshold.
C2_MinimalIsThreshold ==
    (Failed /\ trial_failed /\ ThresholdInside)
        => outcome.minimal_inputs = <<property_func.k>>

PhaseOrder ==
    { <<"RunExamples", "RunRandomTrials">>, <<"RunExamples", "Report">>,
      <<"RunRandomTrials", "Pass">>, <<"RunRandomTrials", "Shrinking">>,
      <<"Pass", "Report">>, <<"Shrinking", "Report">> }

\* the inputs of the current trial make the property fail, or could not all
\* be generated
CurrentTrialFails ==
    \/ Len(inputs) # Len(generators)
    \/ Call(property_func, inputs) # "true"

C4_CandidatesOfTrialShrinkable ==
    \A i \in 1..Len(evaluated) :
        i <= Len(trial_shrs) => evaluated[i] \subseteq NodeValues(trial_shrs[i])

---------------------------------------------------------------------------
(* The transform generators, sampled by two random sources that are built  *)
(* from the same seed: gen.generate(random.Random(seed)) twice, followed by *)
(* invocations of the children thunk of each result.                        *)

Sources == {1, 2}

TransformChoices ==
    { MappedGen(IntGen(0, 4), "double"), MappedGen(IntGen(0, 4), "succ"),
      FilteredGen(IntGen(0, 4), "even", 2), FilteredGen(IntGen(0, 4), "nonzero", 2),
      FilteredGen(IntGen(0, 4), "never", 1),
      FlatMappedGen(IntGen(0, 4), "upto"), FlatMappedGen(IntGen(0, 4), "above"),
      FlatMappedGen(IntGen(0, 4), "same") }

RunnerIdle ==
    /\ rng = None /\ generators = None /\ property_func = None
    /\ examples = None /\ num_runs = None /\ phase = "Idle"
    /\ example_idx = None /\ run = None /\ inputs = None
    /\ trial_shrs = None /\ trial_failed = None /\ caught = NoException
    /\ arg_idx = None /\ shrunk_inputs = None /\ shrinkable = None
    /\ current_val = None /\ evaluated = None /\ outcome = None

NotGenerated  == [state |-> "new"]
GenerateRaised == [state |-> "raised"]

InitGen ==
    /\ seed \in Seeds
    /\ gen \in TransformChoices
    /\ rngs = [r \in Sources |-> 0]
    /\ shrs = [r \in Sources |-> NotGenerated]
    /\ calls = [r \in Sources |-> <<>>]
    /\ RunnerIdle
    /\ shr_in = None /\ shr_out = None

HasShrinkable(r) == shrs[r] # NotGenerated /\ shrs[r] # GenerateRaised

\* shr = gen.generate(rng) with random source r
GenGenerate(r) ==
    /\ shrs[r] = NotGenerated
    /\ LET g == Generate(gen, rngs[r])
       IN /\ shrs' = [shrs EXCEPT ![r] = IF g.ok THEN g.shr ELSE GenerateRaised]
          /\ rngs' = [rngs EXCEPT ![r] = g.pos]
    /\ UNCHANGED <<seed, gen, calls, runnerVars, shrVars>>

\* shr.shrinks().to_list(): one more invocation of the root's children thunk
GenShrinks(r) ==
    /\ HasShrinkable(r)
    /\ Len(calls[r]) < MaxCalls
    /\ LET ks == shrinks(shrs[r], rngs[r])
       IN /\ calls' = [calls EXCEPT ![r] =
                          Append(@, [before |-> rngs[r], ok |-> ks.ok,
                                     list |-> ks.list, after |-> ks.pos])]
          /\ rngs' = [rngs EXCEPT ![r] = ks.pos]
    /\ UNCHANGED <<seed, gen, shrs, runnerVars, shrVars>>

NextGen ==
    \/ \E r \in Sources : GenGenerate(r)
    \/ \E r \in Sources : GenShrinks(r)

SpecGen == InitGen /\ [][NextGen]_vars

---------------------------------------------------------------------------
(* Claims about the transform generators, checked under SpecGen *)

\* the values of a list of Shrinkables
ValuesOf(list) == [k \in 1..Len(list) |-> list[k].value]

\* C5: every node, at every depth, of the shrink tree of a value generated
\* by G.filter(p) has a value that satisfies p.
C5_FilterHoldsAtEveryNode ==
    \A r \in Sources :
        (gen.kind = "filter" /\ HasShrinkable(r)) =>
            \A v \in NodeValues(shrs[r]) : ApplyPred(gen.predicate, v)

\* the tree of m has the shape of the tree of b, and f(b's value) at every path
RECURSIVE SameShapeMapped(_, _, _)
SameShapeMapped(m, b, f) ==
    LET mk == shrinks(m, 0).list
        bk == shrinks(b, 0).list
    IN /\ m.value = ApplyFunc(f, b.value)
       /\ Len(mk) = Len(bk)
       /\ \A k \in 1..Len(mk) : SameShapeMapped(mk[k], bk[k], f)

\* C6: the shrink tree of a value generated by G.map(f) has the shape of the
\* shrink tree G generated, and holds f of the pre-map value at every path.
C6_MapKeepsShape ==
    \A r \in Sources :
        (gen.kind = "map" /\ HasShrinkable(r)) =>
            SameShapeMapped(shrs[r], Generate(gen.generator, 0).shr, gen.func)

\* the children of invocation c that come from the shrinks of the base value
BaseShrinkChildren(c, base) ==
    LET n == Len(shrinks(base, 0).list)
    IN SubSeq(c.list, Len(c.list) - n + 1, Len(c.list))

\* what sampling f(b') gives from position p, for each shrink b' of the base
SampledFrom(base, f, p) ==
    LET bk == shrinks(base, 0).list
    IN [k \in 1..Len(bk) |-> Generate(DependentGen(f, bk[k].value), p).shr.value]

\* C7: in A.flat_map(f) every shrink child that comes from a shrink b' of the
\* base value is what sampling f(b') yields from the state the random source
\* had right after the base value was sampled.
C7_RegeneratedFromStateAfterBase ==
    \A r \in Sources :
        (gen.kind = "flat_map" /\ HasShrinkable(r)) =>
            LET base == Generate(gen.generator, 0)
            IN \A i \in 1..Len(calls[r]) :
                   ValuesOf(BaseShrinkChildren(calls[r][i], base.shr))
                       = SampledFrom(base.shr, gen.func, base.pos)

\* C8: two generate runs of A.flat_map(f) that start from the same seed have
\* equal roots, and the shrink-child sequences their results present are
\* equal position by position.
C8_SameSeedSameChildren ==
    (gen.kind = "flat_map" /\ HasShrinkable(1) /\ HasShrinkable(2)) =>
        /\ shrs[1].value = shrs[2].value
        /\ (calls[1] # <<>> /\ calls[2] # <<>>) =>
               ValuesOf(Last(calls[1]).list) = ValuesOf(Last(calls[2]).list)

\* C9: every invocation of the children thunk of a Shrinkable yields the
\* same sequence of child values and leaves the random source where it was.
C9_ThunkIdempotentAndRandomFree ==
    \A r \in Sources :
        \A i \in 1..Len(calls[r]) :
            /\ calls[r][i].after = calls[r][i].before
            /\ ValuesOf(calls[r][i].list) = ValuesOf(calls[r][1].list)

---------------------------------------------------------------------------
(* The membership-wise list shrinker applied to bounded lists *)

RECURSIVE Prefixes(_, _, _)
\* for i in range(len(elems) - 1, min_size - 1, -1): Shrinkable(elems[:i])
Prefixes(elems, i, min_size) ==
    IF i < min_size THEN <<>>
    ELSE <<Leaf(SubSeq(elems, 1, i))>> \o Prefixes(elems, i - 1, min_size)

RECURSIVE Suffixes(_, _, _)
\* for i in range(1, len(elems) - min_size + 1): Shrinkable(elems[i:])
Suffixes(elems, i, min_size) ==
    IF i > Len(elems) - min_size THEN <<>>
    ELSE <<Leaf(SubSeq(elems, i + 1, Len(elems)))>>
         \o Suffixes(elems, i + 1, min_size)

\* shrink_membership_wise.generate_shrinks
generate_shrinks(elems, min_size) ==
    (IF min_size = 0 /\ Len(elems) > 0 THEN <<Leaf(<<>>)>> ELSE <<>>)
    \o Prefixes(elems, Len(elems) - 1, min_size)
    \o Suffixes(elems, 1, min_size)

shrink_membership_wise(shrinkable_elems, min_size) ==
    Shrinkable(shrinkable_elems, Static(generate_shrinks(shrinkable_elems, min_size)))

\* lists of at most MaxLen childless Shrinkables over 1..MaxElem
ElemLists ==
    UNION { [1..n -> {Leaf(e) : e \in 1..MaxElem}] : n \in 0..MaxLen }

InitShr ==
    /\ seed \in {[k \in 1..TapeLen |-> 0]}
    /\ \E l \in ElemLists : \E m \in 0..Len(l) :
           shr_in = [shrinkable_elems |-> l, min_size |-> m]
    /\ shr_out = None
    /\ RunnerIdle
    /\ gen = None /\ rngs = None /\ shrs = None /\ calls = None

\* result = shrink_membership_wise(elems, min_size)
ShrinkMembershipWise ==
    /\ shr_out = None
    /\ shr_out' = shrink_membership_wise(shr_in.shrinkable_elems, shr_in.min_size)
    /\ UNCHANGED <<seed, shr_in, runnerVars, genVars>>

NextShr == ShrinkMembershipWise

SpecShr == InitShr /\ [][NextShr]_vars

\* the order-preserving subsequences of l
RECURSIVE SubSeqs(_)
SubSeqs(l) ==
    IF l = <<>> THEN {<<>>}
    ELSE LET rest == SubSeqs(Tail(l))
         IN rest \cup { <<Head(l)>> \o t : t \in rest }

\* C10: the values reachable from the root, the root included, in the
\* membership-wise shrink tree of a 3-element sequence with min_size = 0 are
\* exactly the 8 order-preserving subsequences of the root.
C10_AllSubsequencesReached ==
    (/\ shr_out # None
     /\ Len(shr_in.shrinkable_elems) = 3
     /\ Cardinality({ shr_in.shrinkable_elems[k] : k \in 1..3 }) = 3
     /\ shr_in.min_size = 0)
        => /\ NodeValues(shr_out) = SubSeqs(shr_in.shrinkable_elems)
           /\ Cardinality(NodeValues(shr_out)) = 8

---------------------------------------------------------------------------
(* The integer shrinkers applied to values of bounded ranges *)

\* pyproptest IntGenerator._generate_shrinks: childless candidates
IntGenerator_generate_shrinks(value) ==
    (IF value > 0
     THEN <<Leaf(0)>> \o (IF value > 1 THEN <<Leaf(1)>> ELSE <<>>)
     ELSE IF value < 0
          THEN <<Leaf(0)>> \o (IF value < -1 THEN <<Leaf(-1)>> ELSE <<>>)
          ELSE <<>>)
    \o (IF value > 1 \/ value < -1
        THEN <<Leaf(value \div 2), Leaf((0 - value) \div 2)>>
        ELSE <<>>)

\* the ranges [min_value, max_value] the integer generators are built with
IntRangeChoices ==
    { <<0, 100>>, <<5, 15>>, <<-10, -1>>, <<-3, 3>> }

InitInt ==
    /\ seed \in {[k \in 1..TapeLen |-> 0]}
    /\ \E rg \in IntRangeChoices : \E v \in rg[1]..rg[2] :
           shr_in = [value |-> v, min_value |-> rg[1], max_value |-> rg[2]]
    /\ shr_out = None
    /\ RunnerIdle
    /\ gen = None /\ rngs = None /\ shrs = None /\ calls = None

\* python_proptest: shrink_integral(value, min_value, max_value), what
\* the integer generator returns for the value it drew
ShrinkIntegral ==
    /\ shr_out = None
    /\ shr_out' = [by  |-> "shrink_integral",
                   shr |-> shrink_integral(shr_in.value, shr_in.min_value,
                                           shr_in.max_value)]
    /\ UNCHANGED <<seed, shr_in, runnerVars, genVars>>

\* pyproptest: IntGenerator(min_value, max_value).generate(rng), the value
\* being what rng.randint(min_value, max_value) returned
LegacyIntGenerate ==
    /\ shr_out = None
    /\ shr_out' = [by  |-> "IntGenerator",
                   shr |-> Shrinkable(shr_in.value,
                              Static(IntGenerator_generate_shrinks(shr_in.value)))]
    /\ UNCHANGED <<seed, shr_in, runnerVars, genVars>>

NextInt ==
    \/ ShrinkIntegral
    \/ LegacyIntGenerate

SpecInt == InitInt /\ [][NextInt]_vars

\* the child of s that holds value v
ChildWith(s, v) ==
    LET ks == shrinks(s, 0).list
    IN ks[CHOOSE k \in 1..Len(ks) : ks[k].value = v]

ChildValues(s) ==
    LET ks == shrinks(s, 0).list
    IN { ks[k].value : k \in 1..Len(ks) }

\* C11: shrink_integral(8, 0, 100) has root 8, first-level child values
\* {0, 4, 6, 7}, and the children of the child 4 have the values {2, 3}.
C11_TreeOfEight ==
    (/\ shr_out # None
     /\ shr_out.by = "shrink_integral"
     /\ shr_in = [value |-> 8, min_value |-> 0, max_value |-> 100])
        => /\ shr_out.shr.value = 8
           /\ ChildValues(shr_out.shr) = {0, 4, 6, 7}
           /\ Len(shrinks(shr_out.shr, 0).list) = 4
           /\ ChildValues(ChildWith(shr_out.shr, 4)) = {2, 3}

\* shrink_integral(8, 0, 100) has been computed
C11_Witness ==
    /\ shr_out # None
    /\ shr_out.by = "shrink_integral"
    /\ shr_in = [value |-> 8, min_value |-> 0, max_value |-> 100]

\* C16: every node, at every depth, of the shrink tree of a value generated
\* by a bounded integer generator over [min, max] lies in [min, max], also
\* for ranges without 0 such as [5, 15] and [-10, -1].
C16_NodesWithinBounds ==
    shr_out # None =>
        \A v \in NodeValues(shr_out.shr) :
            shr_in.min_value <= v /\ v <= shr_in.max_value

---------------------------------------------------------------------------
(* Further claims about the property runner, checked under Spec *)

\* the example the example loop stands at makes the property fail
ExampleFails ==
    /\ example_idx <= Len(examples)
    /\ Len(examples[example_idx]) = Len(generators)
    /\ Call(property_func, examples[example_idx]) \in {"false", "raise"}

\* C12: a fixed example on which the predicate fails is reported at once:
\* the step that runs it ends for_all with failing_inputs and minimal_inputs
\* equal to the example, nothing having been sampled or shrunk, and nothing
\* happens after the report (the predicate is not invoked again).
C12_FailingExampleReportedAtOnce ==
    /\ [][(phase = "RunExamples" /\ ExampleFails)
            => /\ phase' = "Report"
               /\ outcome' = PropertyTestError(examples[example_idx],
                                               examples[example_idx],
                                               outcome'.cause)
               /\ run' = 0 /\ rng' = 0
               /\ inputs' = <<>> /\ evaluated' = <<>>
               /\ shrunk_inputs' = <<>> /\ arg_idx' = 0]_vars
    /\ [][phase # "Report"]_vars

\* the second of two examples failed and was reported
C12_Witness ==
    /\ Failed
    /\ example_idx = 2
    /\ ExampleFails
    /\ outcome.failing_inputs = examples[2]
    /\ outcome.minimal_inputs = examples[2]
    /\ run = 0

\* the predicate raised the assume signal on the inputs of the current trial
TrialAssumed ==
    /\ phase \in {"RunRandomTrials", "Shrinking", "Pass", "Report"}
    /\ run >= 1
    /\ Len(inputs) = Len(generators)
    /\ Call(property_func, inputs) = "assume"

\* C13: a random trial in which the predicate raises the assume signal counts
\* as a pass: no minimization is started and no failure is reported for it.
C13_AssumedTrialPasses ==
    TrialAssumed => /\ phase # "Shrinking"
                    /\ ~Failed

\* a generator raised while the inputs of the current trial were sampled
TrialSamplingRaised ==
    /\ phase \in {"RunRandomTrials", "Shrinking", "Pass", "Report"}
    /\ run >= 1
    /\ Len(inputs) # Len(generators)

\* C14: an error a generator raises while a trial samples it reaches the
\* caller of for_all as it is: it is not turned into a property failure.
C14_GeneratorErrorSurfaces ==
    /\ TrialSamplingRaised => phase # "Shrinking"
    /\ (TrialSamplingRaised /\ Reported) => outcome = ValueError

\* C15: every failure for_all raises carries failing_inputs and
\* minimal_inputs with exactly one entry per generator.
C15_OneEntryPerGenerator ==
    Failed => /\ Len(outcome.failing_inputs) = Len(generators)
              /\ Len(outcome.minimal_inputs) = Len(generators)

---------------------------------------------------------------------------
(* The container shrinkers and generators: shrinkable_array and what is    *)
(* built on it, ListGenerator                                               *)

ReplaceAt(arr, i, x) == [arr EXCEPT ![i] = x]

\* s.shrinks().to_list() of a Shrinkable whose thunk returns a built list, as
\* those of the integer shrinkers and of the list shrinkers are
StaticShrinks(s) == s.thunk.list

\* one flat list out of the lists kidsOf[from], ..., kidsOf[Len(kidsOf)]
RECURSIVE Concatenated(_, _)
Concatenated(lists, from) ==
    IF from > Len(lists) THEN <<>>
    ELSE lists[from] \o Concatenated(lists, from + 1)

\* what shrink_bulk does: the candidates it returns, or the ValueError it
\* raises
Returned(list) == [ok |-> TRUE, list |-> list]
RaisedValueError == [ok |-> FALSE, list |-> <<>>]

\* lambda: a thunk whose call raises
RaisingThunk == [t |-> "raise", list |-> <<>>]

\* a chunk rule that accepts every chunk: to_pos is never compared with the
\* size of the parent
shrink_bulk_any_chunk(ancestor, power, offset) ==
    LET parent_arr  == ancestor.value
        parent_size == Len(parent_arr)
        num_splits  == 2 ^ power
        from_pos    == (parent_size * offset) \div num_splits
        to_pos      == (parent_size * (offset + 1)) \div num_splits
        results ==
            [i \in 1..(to_pos - from_pos) |->
                LET es == StaticShrinks(parent_arr[from_pos + i])
                IN [j \in 1..Len(es) |->
                       Leaf(ReplaceAt(parent_arr, from_pos + i, es[j]))]]
    IN IF parent_size < num_splits THEN Returned(<<>>)
       ELSE IF offset >= num_splits THEN RaisedValueError
       ELSE Returned(Concatenated(results, 1))

\* shrink_element_wise.shrink_bulk(ancestor, power, offset): every element
\* of the chunk [from_pos, to_pos) replaced by each of its own shrinks in turn
shrink_bulk(ancestor, power, offset) ==
    LET parent_arr  == ancestor.value
        parent_size == Len(parent_arr)
        num_splits  == 2 ^ power
        from_pos    == (parent_size * offset) \div num_splits
        to_pos      == (parent_size * (offset + 1)) \div num_splits
        results ==
            [i \in 1..(to_pos - from_pos) |->
                LET es == StaticShrinks(parent_arr[from_pos + i])
                IN [j \in 1..Len(es) |->
                       Leaf(ReplaceAt(parent_arr, from_pos + i, es[j]))]]
    IN IF parent_size < num_splits THEN Returned(<<>>)
       ELSE IF offset >= num_splits THEN RaisedValueError
       ELSE IF to_pos < parent_size THEN RaisedValueError
       ELSE Returned(Concatenated(results, 1))

\* Shrinkable.concat(lambda parent: Stream.many(shrink_bulk(parent, power,
\* offset))): the shrinks of a node, each treated alike, then those of the
\* lambda
RECURSIVE concat_bulk(_, _, _)
concat_bulk(s, power, offset) ==
    LET ks   == s.thunk.list
        bulk == shrink_bulk(s, power, offset)
    IN IF ~bulk.ok THEN Shrinkable(s.value, RaisingThunk)
       ELSE Shrinkable(s.value,
                       Static([k \in 1..Len(ks) |->
                                  concat_bulk(ks[k], power, offset)]
                              \o bulk.list))

\* shrink_element_wise(shrinkable_elems_shr, power, offset)
shrink_element_wise(shrinkable_elems_shr, power, offset) ==
    LET length     == Len(shrinkable_elems_shr.value)
        num_splits == 2 ^ power
        new_shrinkable_elems_shr ==
            concat_bulk(shrinkable_elems_shr, power, offset)
    IN IF length = 0 THEN Returned(<<>>)
       ELSE IF length < num_splits \/ offset >= num_splits THEN Returned(<<>>)
       ELSE IF new_shrinkable_elems_shr.thunk = RaisingThunk
            THEN RaisedValueError
            ELSE Returned(new_shrinkable_elems_shr.thunk.list)

\* the streams shrinkable_array chains with and_then
ThenStream(then, parent, min_size) ==
    CASE then = "membership" ->
            StaticShrinks(shrink_membership_wise(parent.value, min_size))
      [] then = "element" -> shrink_element_wise(parent, 0, 0).list

\* Shrinkable.and_then(then): a node without shrinks gets then(node) as its
\* shrinks, a node with shrinks hands and_then down to each of them
RECURSIVE and_then(_, _, _)
and_then(s, then, min_size) ==
    LET ks == s.thunk.list
    IN IF ks = <<>>
       THEN Shrinkable(s.value, Static(ThenStream(then, s, min_size)))
       ELSE Shrinkable(s.value,
                       Static([k \in 1..Len(ks) |->
                                  and_then(ks[k], then, min_size)]))

\* Shrinkable.map(lambda the_arr: [shr.value for shr in the_arr])
RECURSIVE MapToValues(_)
MapToValues(s) ==
    LET ks == s.thunk.list
    IN Shrinkable(Values(s.value),
                  Static([k \in 1..Len(ks) |-> MapToValues(ks[k])]))

shrinkable_array(shrinkable_elems, min_size, membership_wise, element_wise) ==
    LET base     == Leaf(shrinkable_elems)
        by_membership ==
            IF membership_wise THEN and_then(base, "membership", min_size)
            ELSE base
        by_element ==
            IF element_wise THEN and_then(by_membership, "element", min_size)
            ELSE by_membership
    IN MapToValues(by_element)

\* a string is the sequence of the code points of its characters: ord(c) of
\* a character is its entry, "".join(chr(p) for p in points) is points
shrink_string(value, min_length) ==
    shrinkable_array([k \in 1..Len(value) |-> binary_search_shrinkable(value[k])],
                     min_length, TRUE, TRUE)

\* reconstruct_dict of shrink_dict: values paired with the keys by position;
\* a dict is a function from its keys, a later pair overriding an earlier one
reconstruct_dict(key_shrinkables, values) ==
    LET n == IF Len(values) < Len(key_shrinkables) THEN Len(values)
             ELSE Len(key_shrinkables)
    IN [key \in { key_shrinkables[i].value : i \in 1..n } |->
           values[CHOOSE i \in 1..n :
                     /\ key_shrinkables[i].value = key
                     /\ \A j \in 1..n : key_shrinkables[j].value = key => j <= i]]

\* Shrinkable.map(reconstruct_dict)
RECURSIVE MapToDict(_, _)
MapToDict(key_shrinkables, s) ==
    LET ks == s.thunk.list
    IN Shrinkable(reconstruct_dict(key_shrinkables, s.value),
                  Static([k \in 1..Len(ks) |-> MapToDict(key_shrinkables, ks[k])]))

shrink_dict(key_shrinkables, value_shrinkables, min_size) ==
    MapToDict(key_shrinkables,
              shrinkable_array(value_shrinkables, min_size, TRUE, TRUE))

\* ListGenerator._generate_shrinks
ListGenerator_generate_shrinks(elements) ==
    LET n == Len(elements)
        shrunk ==
            [i \in 1..n |->
                LET es == StaticShrinks(elements[i])
                IN [j \in 1..Len(es) |->
                       Leaf(Values(ReplaceAt(elements, i, es[j])))]]
    IN (IF n > 0 THEN <<Leaf(<<>>)>> ELSE <<>>)
       \o (IF n > 1
           THEN <<Leaf(Values(SubSeq(elements, 1, n - 1))),
                  Leaf(Values(SubSeq(elements, 2, n)))>>
           ELSE <<>>)
       \o Concatenated(shrunk, 1)

\* [self.element_generator.generate(rng) for _ in range(length)]
RECURSIVE GenerateElements(_, _, _)
GenerateElements(g, n, p) ==
    IF n = 0 THEN [ok |-> TRUE, shrs |-> <<>>, pos |-> p]
    ELSE LET r == Generate(g, p)
         IN IF ~r.ok THEN [ok |-> FALSE, shrs |-> <<>>, pos |-> r.pos]
            ELSE LET rest == GenerateElements(g, n - 1, r.pos)
                 IN [ok |-> rest.ok, shrs |-> <<r.shr>> \o rest.shrs,
                     pos |-> rest.pos]

\* ListGenerator.generate
ListGenerator_generate(g, p) ==
    LET length   == randint(p, g.min_length, g.max_length)
        elements == GenerateElements(g.element_generator, length, p + 1)
    IN IF ~elements.ok THEN Raised(elements.pos)
       ELSE Generated(Shrinkable(Values(elements.shrs),
                          Static(ListGenerator_generate_shrinks(elements.shrs))),
                      elements.pos)

ListGen(g, lo, hi) ==
    [kind |-> "list", element_generator |-> g, min_length |-> lo,
     max_length |-> hi]

\* the sequences over S of length at most n
SeqsUpTo(S, n) == UNION { [1..k -> S] : k \in 0..n }

\* the character sets string generators are restricted to, as code points
CharsetChoices == { {2, 3}, {1, 2, 3} }

\* strings of at most MaxLen characters of the charset, with a min_length
\* they respect
StringInputs ==
    { [op |-> "shrink_string", value |-> v, min_length |-> m, charset |-> cs] :
        <<cs, v, m>> \in
            { t \in CharsetChoices
                      \X SeqsUpTo(1..MaxElem, MaxLen)
                      \X (0..MaxLen) :
                /\ \A k \in 1..Len(t[2]) : t[2][k] \in t[1]
                /\ t[3] <= Len(t[2]) } }

\* up to two pairs of distinct keys and integer values that shrink towards 0
DictInputs ==
    { [op |-> "shrink_dict",
       key_shrinkables   |-> [i \in 1..Len(ks) |-> Leaf(ks[i])],
       value_shrinkables |-> [i \in 1..Len(ks) |->
                                 shrink_integral(vs[i], 0, MaxElem)],
       min_size |-> m] :
        <<ks, vs, m>> \in
            { t \in SeqsUpTo(1..MaxElem, 2)
                      \X SeqsUpTo(0..MaxElem, 2)
                      \X (0..2) :
                /\ Len(t[1]) = Len(t[2])
                /\ \A i, j \in 1..Len(t[1]) : t[1][i] = t[1][j] => i = j
                /\ t[3] <= Len(t[1]) } }

ListInputs ==
    { [op |-> "ListGenerator", generator |-> ListGen(IntGen(0, 2), b[1], b[2])] :
        b \in { <<0, 2>>, <<2, 3>>, <<3, 8>> } }

\* check_for_zero of shrink_array_length: 0 is a value of the tree
RECURSIVE check_for_zero(_)
check_for_zero(shr) ==
    \/ shr.value = 0
    \/ \E k \in 1..Len(StaticShrinks(shr)) : check_for_zero(StaticShrinks(shr)[k])

\* Shrinkable.concat_static(lambda: Stream.one(extra)): one more shrink at
\* the root, after those it has
concat_static(s, extra) ==
    Shrinkable(s.value, Static(StaticShrinks(s) \o <<extra>>))

\* a length shrinker that trusts the bisection alone: the distances strictly
\* between 0 and size - min_size, and no fallback to min_size
shrink_array_length_bisected(shrinkable_elems, min_size) ==
    LET size == Len(shrinkable_elems)
    IN IF size <= min_size THEN Leaf(Values(shrinkable_elems))
       ELSE MapStatic([new_size \in Int |->
                          Values(SubSeq(shrinkable_elems, 1, new_size))],
                      MapStatic([n \in Int |-> n + min_size],
                                Shrinkable(size - min_size,
                                           Static(gen_pos(0, size - min_size)))))

\* shrink_array_length(shrinkable_elems, min_size)
shrink_array_length(shrinkable_elems, min_size) ==
    LET size == Len(shrinkable_elems)
        range_shrinkable_original == binary_search_shrinkable(size - min_size)
        has_zero == check_for_zero(range_shrinkable_original)
        range_shrinkable ==
            MapStatic([n \in Int |-> n + min_size], range_shrinkable_original)
    IN IF size <= min_size THEN Leaf(Values(shrinkable_elems))
       ELSE MapStatic([new_size \in Int |->
                          Values(SubSeq(shrinkable_elems, 1, new_size))],
                      IF ~has_zero
                      THEN concat_static(range_shrinkable, Leaf(min_size))
                      ELSE range_shrinkable)

\* lists of at most MaxLen childless Shrinkables with a min_size they respect
ArrayInputs ==
    { [op |-> "shrink_array_length", shrinkable_elems |-> l, min_size |-> m] :
        <<l, m>> \in { t \in ElemLists \X (0..MaxLen) : t[2] <= Len(t[1]) } }

\* non-empty lists of integer Shrinkables, the number 2^power of chunks and
\* the chunk to shrink
ElementWiseInputs ==
    { [op |-> "shrink_element_wise",
       shrinkable_elems_shr |->
           Leaf([i \in 1..Len(t[1]) |-> binary_search_shrinkable(t[1][i])]),
       power |-> t[2], offset |-> t[3]] :
        t \in { u \in (SeqsUpTo(0..MaxElem, MaxLen) \ {<<>>})
                        \X (0..MaxPower) \X (0..(2 ^ MaxPower)) :
                    u[3] <= 2 ^ u[2] } }

InitColl ==
    /\ shr_in \in StringInputs \cup DictInputs \cup ListInputs
                  \cup ArrayInputs \cup ElementWiseInputs
    /\ IF shr_in.op = "ListGenerator" THEN seed \in Seeds
       ELSE seed \in {[k \in 1..TapeLen |-> 0]}
    /\ shr_out = None
    /\ RunnerIdle
    /\ gen = None /\ rngs = None /\ shrs = None /\ calls = None

\* shrink_string(value, min_length)
ShrinkString ==
    /\ shr_out = None
    /\ shr_in.op = "shrink_string"
    /\ shr_out' = shrink_string(shr_in.value, shr_in.min_length)
    /\ UNCHANGED <<seed, shr_in, runnerVars, genVars>>

\* shrink_dict(key_shrinkables, value_shrinkables, min_size)
ShrinkDict ==
    /\ shr_out = None
    /\ shr_in.op = "shrink_dict"
    /\ shr_out' = shrink_dict(shr_in.key_shrinkables, shr_in.value_shrinkables,
                              shr_in.min_size)
    /\ UNCHANGED <<seed, shr_in, runnerVars, genVars>>

\* ListGenerator(element_generator, min_length, max_length).generate(rng)
ListGenerate ==
    /\ shr_out = None
    /\ shr_in.op = "ListGenerator"
    /\ shr_out' = ListGenerator_generate(shr_in.generator, 0).shr
    /\ UNCHANGED <<seed, shr_in, runnerVars, genVars>>

\* shrink_array_length(shrinkable_elems, min_size)
ShrinkArrayLength ==
    /\ shr_out = None
    /\ shr_in.op = "shrink_array_length"
    /\ shr_out' = shrink_array_length(shr_in.shrinkable_elems, shr_in.min_size)
    /\ UNCHANGED <<seed, shr_in, runnerVars, genVars>>

\* shrink_element_wise(shrinkable_elems_shr, power, offset)
ShrinkElementWise ==
    /\ shr_out = None
    /\ shr_in.op = "shrink_element_wise"
    /\ shr_out' = shrink_element_wise(shr_in.shrinkable_elems_shr, shr_in.power,
                                      shr_in.offset)
    /\ UNCHANGED <<seed, shr_in, runnerVars, genVars>>

NextColl ==
    \/ ShrinkString
    \/ ShrinkDict
    \/ ListGenerate
    \/ ShrinkArrayLength
    \/ ShrinkElementWise

SpecColl == InitColl /\ [][NextColl]_vars

ValueShrinkableOf(key) ==
    shr_in.value_shrinkables[
        CHOOSE i \in 1..Len(shr_in.key_shrinkables) :
            shr_in.key_shrinkables[i].value = key]

\* C18: in every node of the shrink tree of a mapping each key is a key of
\* the root and carries the root's value for that key or a shrink of it.
C18_KeysKeepTheirValues ==
    (shr_out # None /\ shr_in.op = "shrink_dict") =>
        \A d \in NodeValues(shr_out) :
            \A key \in DOMAIN d :
                /\ key \in DOMAIN shr_out.value
                /\ d[key] \in NodeValues(ValueShrinkableOf(key))

\* C19: every node of the shrink tree of a list generated with min_length and
\* max_length has a length between min_length and max_length.
C19_LengthWithinBounds ==
    (shr_out # None /\ shr_in.op = "ListGenerator") =>
        \A l \in NodeValues(shr_out) :
            /\ shr_in.generator.min_length <= Len(l)
            /\ Len(l) <= shr_in.generator.max_length

---------------------------------------------------------------------------
(* The float shrinkers.  A float is nan, an infinity, or a finite value    *)
(* counted in units of the smallest positive float.                        *)

Finite(n) == [cls |-> "finite", n |-> n]
PosInf    == [cls |-> "inf"]
NegInf    == [cls |-> "-inf"]
NaN       == [cls |-> "nan"]

\* 1.0 in units of the smallest positive float
FloatOne == 4

\* sys.float_info.min: the smallest positive normalized float
float_info_min == Finite(1)

\* sys.float_info.max: the largest finite float
float_info_max == Finite(FloatMax)

Floats == { Finite(n) : n \in (0 - FloatMax)..FloatMax } \cup {PosInf, NegInf, NaN}

Zero == Finite(0)

\* val > 0, val < 0: false for nan
Positive(v) == v = PosInf \/ (v.cls = "finite" /\ v.n > 0)
Negative(v) == v = NegInf \/ (v.cls = "finite" /\ v.n < 0)

\* abs(val) > 1.0
AbsAboveOne(v) ==
    \/ v \in {PosInf, NegInf}
    \/ v.cls = "finite" /\ (v.n > FloatOne \/ v.n < 0 - FloatOne)

\* -val
Negated(v) ==
    CASE v = PosInf -> NegInf
      [] v = NegInf -> PosInf
      [] v = NaN    -> NaN
      [] OTHER      -> Finite(0 - v.n)

\* val / 2: an infinity stays one; a finite value is halved, rounded to even
Halved(v) ==
    IF v.cls # "finite" THEN v
    ELSE LET a == IF v.n < 0 THEN 0 - v.n ELSE v.n
             h == IF a % 2 = 0 THEN a \div 2
                  ELSE IF ((a - 1) \div 2) % 2 = 0 THEN (a - 1) \div 2
                       ELSE (a + 1) \div 2
         IN Finite(IF v.n < 0 THEN 0 - h ELSE h)

\* shrink_float(value)
shrink_float(value) ==
    Shrinkable(value,
        Static((IF Positive(value) \/ Negative(value) THEN <<Leaf(Zero)>>
                ELSE <<>>)
               \o (IF AbsAboveOne(value)
                   THEN <<Leaf(Halved(value)), Leaf(Halved(Negated(value)))>>
                   ELSE <<>>)))

\* math.floor(val) if val > 0 else math.floor(val) + 1, as a float
int_val(v) ==
    LET fl == (v.n \div FloatOne) * FloatOne
    IN IF v.n > 0 THEN fl ELSE fl + FloatOne

Abs(n) == IF n < 0 THEN 0 - n ELSE n

\* shrinkable_float.shrinkable_float_stream(val)
shrinkable_float_stream(val) ==
    IF val = Zero THEN <<>>
    ELSE IF val = NaN THEN <<Leaf(Zero)>>
    ELSE <<Leaf(Zero)>>
         \o (IF val = PosInf THEN <<Leaf(float_info_max)>>
             ELSE IF val = NegInf THEN <<Leaf(float_info_min)>>
             ELSE (IF AbsAboveOne(val)
                   THEN <<Leaf(Halved(val)), Leaf(Halved(Negated(val)))>>
                   ELSE <<>>)
                  \o (IF int_val(val) # 0 /\ Abs(int_val(val)) < Abs(val.n)
                      THEN <<Leaf(Finite(int_val(val)))>>
                      ELSE <<>>))

shrinkable_float(value) == Shrinkable(value, Static(shrinkable_float_stream(value)))

InitFloat ==
    /\ seed \in {[k \in 1..TapeLen |-> 0]}
    /\ \E v \in Floats : shr_in = [value |-> v]
    /\ shr_out = None
    /\ RunnerIdle
    /\ gen = None /\ rngs = None /\ shrs = None /\ calls = None

\* python_proptest.core.shrinker.floating: shrink_float(value)
ShrinkFloat ==
    /\ shr_out = None
    /\ shr_out' = [by |-> "shrink_float", shr |-> shrink_float(shr_in.value)]
    /\ UNCHANGED <<seed, shr_in, runnerVars, genVars>>

\* python_proptest/core/shrinker.py: shrinkable_float(value)
ShrinkableFloat ==
    /\ shr_out = None
    /\ shr_out' = [by |-> "shrinkable_float", shr |-> shrinkable_float(shr_in.value)]
    /\ UNCHANGED <<seed, shr_in, runnerVars, genVars>>

NextFloat ==
    \/ ShrinkFloat
    \/ ShrinkableFloat

SpecFloat == InitFloat /\ [][NextFloat]_vars

\* C20: the shrink candidates of +infinity contain the largest positive
\* finite float, those of -infinity the most negative finite float.
C20_InfinityShrinksToExtreme ==
    shr_out # None =>
        /\ shr_in.value = PosInf => float_info_max \in ChildValues(shr_out.shr)
        /\ shr_in.value = NegInf =>
               Negated(float_info_max) \in ChildValues(shr_out.shr)

---------------------------------------------------------------------------
(* The combinators: aggregate, one_of, element_of *)

\* every step drawn from next(0), whatever the previous step was
RECURSIVE AggregateSteps_unchained(_, _, _, _)
AggregateSteps_unchained(next, prev, n, p) ==
    IF n = 0 THEN <<>>
    ELSE LET g == DependentGen(next, 0)
             r == Generate(g, p)
         IN <<[gen |-> g, pos |-> p, shr |-> r.shr]>>
            \o AggregateSteps_unchained(next, r.shr.value, n - 1, r.pos)

\* the n further steps of a chain: each is sampled from next(previous value)
RECURSIVE AggregateSteps(_, _, _, _)
AggregateSteps(next, prev, n, p) ==
    IF n = 0 THEN <<>>
    ELSE LET g == DependentGen(next, prev)
             r == Generate(g, p)
         IN <<[gen |-> g, pos |-> p, shr |-> r.shr]>>
            \o AggregateSteps(next, r.shr.value, n - 1, r.pos)

AggregateGen(g, next, lo, hi) ==
    [kind |-> "aggregate", seed_gen |-> g, next |-> next, min_size |-> lo,
     max_size |-> hi]

\* aggregate(seed_gen, next, min_size, max_size).generate(rng): the size is
\* drawn first, then the seed step, then each step from the one before it
AggregateGenerator_generate(g, p) ==
    LET size  == randint(p, g.min_size, g.max_size)
        first == Generate(g.seed_gen, p + 1)
        steps == IF size = 0 THEN <<>>
                 ELSE <<[gen |-> g.seed_gen, pos |-> p + 1, shr |-> first.shr]>>
                      \o AggregateSteps(g.next, first.shr.value, size - 1,
                                        first.pos)
    IN [by |-> "aggregate", steps |-> steps,
        value |-> [i \in 1..Len(steps) |-> steps[i].shr.value]]

\* chains over integer steps, with the length bounds they are built with
AggregateInputs ==
    { [op |-> "aggregate", generator |-> AggregateGen(IntGen(0, hi), f, b[1], b[2])] :
        hi \in {2, 4}, f \in {"above", "upto"},
        b \in { <<5, 5>>, <<3, 5>>, <<0, 2>>, <<1, 1>> } }


\* floats are counted in units of 1 / FloatDen
FloatDen == (MaxRaw + 1) * (MaxRaw + 1)

\* rng.random(): a float in [0, 1) made of two words of the stream
random(p) == [value |-> Raw(p) * (MaxRaw + 1) + Raw(p + 1), pos |-> p + 2]

\* an acceptance test that also accepts a float equal to the weight
Accepted_inclusive(weighted, coin) == coin <= weighted.weight

\* if rng.random() < weighted.weight
Accepted(weighted, coin) == coin < weighted.weight

\* one pass of the selection loop from position p: the index drawn, the float
\* drawn after it, and where the random source stands then
Selection(options, p) ==
    LET dice == randint(p, 0, Len(options) - 1)
        coin == random(p + 1)
    IN [before |-> p, dice |-> dice, coin |-> coin.value, after |-> coin.pos,
        accepted |-> Accepted(options[dice + 1], coin.value)]

\* ElementOfGenerator.generate, lines 50-57: the value and, as its shrinks,
\* the other values
ElementOf_chosen(weighted_values, dice) ==
    LET value == weighted_values[dice + 1].value
        others == SelectSeq(weighted_values, LAMBDA wv : wv.value # value)
    IN Shrinkable(value, Static([k \in 1..Len(others) |-> Leaf(others[k].value)]))

\* the weights options are normalized to, all in (0, 1]
WeightChoices == { FloatDen, FloatDen \div 2, MaxRaw + 1 }

OneOfInputs ==
    { [op |-> "one_of", weighted_generators |-> ws] :
        ws \in (SeqsUpTo([generator : {IntGen(0, 2), JustGen(3)},
                          weight : WeightChoices], 2) \ {<<>>}) }

ElementOfInputs ==
    { [op |-> "element_of", weighted_values |-> ws] :
        ws \in (SeqsUpTo([value : 1..MaxElem, weight : WeightChoices], 2)
                   \ {<<>>}) }

InitComb ==
    /\ shr_in \in AggregateInputs \cup OneOfInputs \cup ElementOfInputs
    /\ seed \in Seeds
    /\ shr_out = None
    /\ rngs = 0
    /\ calls = <<>>
    /\ RunnerIdle
    /\ gen = None /\ shrs = None

\* aggregate(seed_gen, next, min_size, max_size).generate(rng)
AggregateGenerate ==
    /\ shr_out = None
    /\ shr_in.op = "aggregate"
    /\ shr_out' = AggregateGenerator_generate(shr_in.generator, rngs)
    /\ UNCHANGED <<seed, shr_in, runnerVars, genVars>>

\* OneOfGenerator.generate: one pass of "while True"
OneOfIteration ==
    /\ shr_out = None
    /\ shr_in.op = "one_of"
    /\ Len(calls) < MaxIter
    /\ LET sel == Selection(shr_in.weighted_generators, rngs)
           weighted_gen == shr_in.weighted_generators[sel.dice + 1]
           g == Generate(weighted_gen.generator, sel.after)
       IN /\ calls' = Append(calls, sel)
          /\ IF sel.accepted
             THEN /\ shr_out' = [by |-> "one_of", shr |-> g.shr]
                  /\ rngs' = g.pos
             ELSE /\ rngs' = sel.after
                  /\ UNCHANGED shr_out
    /\ UNCHANGED <<seed, shr_in, gen, shrs, runnerVars>>

\* ElementOfGenerator.generate: one pass of "while True"
ElementOfIteration ==
    /\ shr_out = None
    /\ shr_in.op = "element_of"
    /\ Len(calls) < MaxIter
    /\ LET sel == Selection(shr_in.weighted_values, rngs)
       IN /\ calls' = Append(calls, sel)
          /\ rngs' = sel.after
          /\ IF sel.accepted
             THEN shr_out' = [by |-> "element_of",
                              shr |-> ElementOf_chosen(shr_in.weighted_values,
                                                       sel.dice)]
             ELSE UNCHANGED shr_out
    /\ UNCHANGED <<seed, shr_in, gen, shrs, runnerVars>>

NextComb ==
    \/ AggregateGenerate
    \/ OneOfIteration
    \/ ElementOfIteration

SpecComb == InitComb /\ [][NextComb]_vars

NonDecreasing(l) == \A i \in 1..(Len(l) - 1) : l[i] <= l[i + 1]

\* C21: aggregate returns the ordered list of the step values, of a length
\* within [min_size, max_size]; step i+1 is what next(step i) yields from the
\* random source as it stood after step i; with next = n -> int(n, n + c) the
\* list is non-decreasing, and with min_size = max_size = 5 it has length 5
C21_AggregateChain ==
    (shr_out # None /\ shr_in.op = "aggregate") =>
        LET g == shr_in.generator
            l == shr_out.value
        IN /\ Len(l) >= g.min_size /\ Len(l) <= g.max_size
           /\ \A i \in 1..(Len(l) - 1) :
                 LET d == DependentGen(g.next, l[i])
                 IN /\ l[i + 1] >= d.min_value /\ l[i + 1] <= d.max_value
                    /\ l[i + 1] = randint(shr_out.steps[i + 1].pos,
                                          d.min_value, d.max_value)
                    /\ shr_out.steps[i + 1].pos = shr_out.steps[i].pos + 1
           /\ g.next = "above" => NonDecreasing(l)
           /\ (g.min_size = 5 /\ g.max_size = 5) => Len(l) = 5

\* a chain of five steps that rises from its first to its last value
C21_Witness ==
    /\ shr_out # None /\ shr_in.op = "aggregate"
    /\ shr_in.generator.min_size = 5 /\ shr_in.generator.max_size = 5
    /\ shr_in.generator.next = "above"
    /\ Len(shr_out.value) = 5
    /\ shr_out.value[5] > shr_out.value[1] + 2


---------------------------------------------------------------------------
(* Further claims about the property runner, checked under Spec *)

\* the property raised an unexpected error in the failing trial
TrialPredicateRaised ==
    /\ run >= 1
    /\ caught = "exception"

\* C22: when the predicate raises an unexpected error in a random trial,
\* for_all minimizes the inputs (a candidate on which the predicate raises
\* is adopted as still failing) and then raises a property failure that
\* carries the failing inputs and the minimized inputs and has the original
\* error as its cause.
C22_PredicateErrorIsPropertyFailure ==
    (Reported /\ TrialPredicateRaised) =>
        /\ outcome.kind = "PropertyTestError"
        /\ outcome.failing_inputs = inputs
        /\ outcome.cause = "exception"
        /\ Len(outcome.minimal_inputs) = Len(inputs)
        /\ \A i \in 1..Len(inputs) :
               outcome.minimal_inputs[i] # inputs[i] =>
                   /\ outcome.minimal_inputs[i] \in evaluated[i]
                   /\ Call(property_func, outcome.minimal_inputs) = "raise"


\* every generator is an integer generator over a non-negative range
NonNegativeIntGenerators ==
    \A k \in 1..Len(generators) :
        generators[k].kind = "int" /\ generators[k].min_value >= 0

\* C23: for integer generators over non-negative ranges, each entry of
\* minimal_inputs is at most the entry of failing_inputs at the same
\* position, for any number of argument positions.
C23_MinimalAtMostFailing ==
    (Failed /\ trial_failed /\ NonNegativeIntGenerators) =>
        /\ Len(outcome.minimal_inputs) = Len(outcome.failing_inputs)
        /\ \A i \in 1..Len(outcome.failing_inputs) :
               outcome.minimal_inputs[i] <= outcome.failing_inputs[i]


\* a predicate that fails on every input, over one list generator with
\* min_length = 0
AlwaysFailingOverLists ==
    /\ property_func.kind = "fail"
    /\ Len(generators) = 1
    /\ generators[1].kind = "list"
    /\ generators[1].min_length = 0

\* C24: for a predicate that fails on every input and a list generator with
\* min_length = 0, the reported minimal input is the empty list, whatever
\* list the failing trial sampled and whatever the seed.
C24_MinimalIsEmptyList ==
    (Failed /\ trial_failed /\ AlwaysFailingOverLists)
        => outcome.minimal_inputs = << <<>> >>


\* the tuple the minimization stands on: the minimized values of the
\* positions done, the current value of the position being minimized, and
\* the original failing values of the positions to come
StandingInputs ==
    IF shrinkable = None
    THEN shrunk_inputs \o SubSeq(inputs, arg_idx, Len(inputs))
    ELSE shrunk_inputs \o <<current_val>>
             \o SubSeq(inputs, arg_idx + 1, Len(inputs))

\* C25: the reported minimal_inputs, taken as a whole, make the predicate
\* fail (it returns false or raises): while and after position i is
\* minimized, the tuple of the minimized earlier positions, the value adopted
\* for position i and the original later positions still fails, for every i
\* up to the last position.
C25_MinimalInputsStillFail ==
    /\ (phase = "Shrinking" /\ Len(inputs) = Len(generators)) =>
           /\ Len(StandingInputs) = Len(inputs)
           /\ Call(property_func, StandingInputs) # "true"
    /\ (Failed /\ trial_failed /\ Len(inputs) = Len(generators)) =>
           Call(property_func, outcome.minimal_inputs) # "true"

\* a failure of two arguments reported with both of them minimized
C25_Witness ==
    /\ Failed /\ trial_failed
    /\ Len(inputs) = 2
    /\ outcome.minimal_inputs[1] # inputs[1]
    /\ outcome.minimal_inputs[2] # inputs[2]


\* _shrink_failing_inputs is one synchronous call: as long as a step of the
\* minimization is left, it is taken
SpecLive ==
    Spec /\ WF_vars(ShrinkArgument) /\ WF_vars(ShrinkStep)
         /\ WF_vars(RaiseFailure)

\* the number of levels below a node of a shrink tree
RECURSIVE Depth(_)
Depth(s) ==
    LET ks == shrinks(s, 0).list
        RECURSIVE MaxDepth(_)
        MaxDepth(k) == IF k > Len(ks) THEN 0
                       ELSE LET d == 1 + Depth(ks[k])
                                m == MaxDepth(k + 1)
                            IN IF d > m THEN d ELSE m
    IN MaxDepth(1)

---------------------------------------------------------------------------
(* Further claims about the transform generators, checked under SpecGen *)

\* the k-th sample a filtered generator over an integer generator takes from
\* a random source that starts at position 0
BaseSample(k) ==
    randint(k - 1, gen.generator.min_value, gen.generator.max_value)

\* C27: a filtered generator samples its base generator at most max_attempts
\* times per generate call: it returns the first sample whose value satisfies
\* the predicate, and when max_attempts consecutive samples are rejected it
\* raises instead of sampling again.
C27_AtMostMaxAttemptsSamples ==
    \A r \in Sources :
        (gen.kind = "filter" /\ shrs[r] # NotGenerated /\ calls[r] = <<>>) =>
            LET n == rngs[r]
            IN /\ n <= gen.max_attempts
               /\ \A k \in 1..(n - 1) : ~ApplyPred(gen.predicate, BaseSample(k))
               /\ IF shrs[r] = GenerateRaised
                  THEN /\ n = gen.max_attempts
                       /\ ~ApplyPred(gen.predicate, BaseSample(n))
                  ELSE /\ n >= 1
                       /\ shrs[r].value = BaseSample(n)
                       /\ ApplyPred(gen.predicate, BaseSample(n))

\* a value returned by the second sample after the first one was rejected
C27_Witness ==
    /\ gen.kind = "filter" /\ gen.max_attempts = 2
    /\ HasShrinkable(1) /\ rngs[1] = 2
    /\ ~ApplyPred(gen.predicate, BaseSample(1))
    /\ ApplyPred(gen.predicate, shrs[1].value)


---------------------------------------------------------------------------
(* Claims about the array shrinkers, checked under SpecColl *)

\* C28: for any size n > min_size, the shrink tree built by array-length
\* shrinking contains a node whose value is the prefix of the root of length
\* exactly min_size, whether or not the bisection over n - min_size reaches
\* distance 0 by itself; every node is a prefix of the root of a length
\* between min_size and n.
C28_MinSizePrefixReachable ==
    (shr_out # None /\ shr_in.op = "shrink_array_length"
        /\ Len(shr_in.shrinkable_elems) > shr_in.min_size) =>
        LET root == Values(shr_in.shrinkable_elems)
        IN /\ shr_out.value = root
           /\ SubSeq(root, 1, shr_in.min_size) \in NodeValues(shr_out)
           /\ \A l \in NodeValues(shr_out) :
                  /\ Len(l) >= shr_in.min_size /\ Len(l) <= Len(root)
                  /\ l = SubSeq(root, 1, Len(l))

\* three elements shrunk towards min_size 1: the prefix of length 1 is a
\* node, and so is the prefix of length 2 the bisection passes through
C28_Witness ==
    /\ shr_out # None /\ shr_in.op = "shrink_array_length"
    /\ Len(shr_in.shrinkable_elems) = 3 /\ shr_in.min_size = 1
    /\ \E l \in NodeValues(shr_out) : Len(l) = 1
    /\ \E l \in NodeValues(shr_out) : Len(l) = 2


\* the positions at which a candidate differs from the parent sequence
ChangedPositions(parent_arr, candidate) ==
    { i \in 1..Len(parent_arr) : candidate[i] # parent_arr[i] }

\* C29: for any power >= 0 and any offset with 0 <= offset < 2^power <=
\* length, element-wise shrinking returns, without raising, candidates that
\* each differ from the parent sequence in exactly one position; that
\* position lies inside chunk number offset of the 2^power contiguous chunks,
\* and the new element there is one of the old element's own shrinks.
C29_OneElementOfTheChunk ==
    (shr_out # None /\ shr_in.op = "shrink_element_wise"
        /\ shr_in.offset < 2 ^ shr_in.power
        /\ 2 ^ shr_in.power <= Len(shr_in.shrinkable_elems_shr.value)) =>
        LET parent_arr == shr_in.shrinkable_elems_shr.value
            length     == Len(parent_arr)
            num_splits == 2 ^ shr_in.power
            from_pos   == (length * shr_in.offset) \div num_splits
            to_pos     == (length * (shr_in.offset + 1)) \div num_splits
        IN /\ shr_out.ok
           /\ \A k \in 1..Len(shr_out.list) :
                  LET candidate == shr_out.list[k].value
                  IN /\ Len(candidate) = length
                     /\ \E i \in (from_pos + 1)..to_pos :
                            /\ ChangedPositions(parent_arr, candidate) = {i}
                            /\ \E j \in 1..Len(StaticShrinks(parent_arr[i])) :
                                   candidate[i] = StaticShrinks(parent_arr[i])[j]


\* the weighted options a selection chooses from
Options ==
    IF shr_in.op = "one_of" THEN shr_in.weighted_generators
    ELSE shr_in.weighted_values

\* C30: one_of / element_of return option i only in a pass in which index i
\* was drawn uniformly over the options and the float drawn immediately
\* afterwards was below the weight of option i; every rejected pass consumes
\* exactly one index draw and one float draw of the random source, and the
\* loop ends at the first acceptance.
C30_RejectionSampling ==
    (shr_in.op \in {"one_of", "element_of"}) =>
        /\ \A k \in 1..Len(calls) :
               LET c == calls[k]
               IN /\ c.before = (IF k = 1 THEN 0 ELSE calls[k - 1].after)
                  /\ c.dice = randint(c.before, 0, Len(Options) - 1)
                  /\ c.coin = random(c.before + 1).value
                  /\ c.after = random(c.before + 1).pos
                  /\ k < Len(calls) => c.coin >= Options[c.dice + 1].weight
        /\ shr_out = None =>
               /\ rngs = (IF calls = <<>> THEN 0 ELSE Last(calls).after)
               /\ \A k \in 1..Len(calls) :
                      calls[k].coin >= Options[calls[k].dice + 1].weight
        /\ shr_out # None =>
               /\ calls # <<>>
               /\ Last(calls).coin < Options[Last(calls).dice + 1].weight
               /\ IF shr_in.op = "element_of"
                  THEN /\ shr_out.shr.value = Options[Last(calls).dice + 1].value
                       /\ rngs = Last(calls).after
                  ELSE LET g == Generate(Options[Last(calls).dice + 1].generator,
                                         Last(calls).after)
                       IN shr_out.shr = g.shr /\ rngs = g.pos

\* an option returned by the second pass, drawn with another index than the
\* one the first pass rejected
C30_Witness ==
    /\ shr_in.op \in {"one_of", "element_of"}
    /\ shr_out # None
    /\ Len(calls) = 2
    /\ calls[1].dice # calls[2].dice
    /\ ~calls[1].accepted

=============================================================================
